---- MODULE Spec2Model ----
(***************************************************************************)
(* Group quantization kernels of csrc/includes/quantization_utils.h:       *)
(* GroupStats, Params, _chunk, _local_serial_reduce, _get_params and the   *)
(* two local_array entry points.                                           *)
(*                                                                         *)
(* Numbers.  A __half or float value is the exact rational <<n, d>> in     *)
(* lowest terms with d >= 0; d = 0 stands for +inf (<<1,0>>), -inf         *)
(* (<<-1,0>>) and NaN (<<0,0>>).  Arithmetic is exact: the rounding of the *)
(* float unit is not modelled, the rounding of the float -> int32          *)
(* conversion and the narrowing to int8 are.                               *)
(* Buffers are functions over 0..n-1, indexed as in the source.            *)
(***************************************************************************)
EXTENDS Integers, FiniteSets, Sequences, TLC

(***************************************************************************)
(* Bounds of the model.                                                    *)
(***************************************************************************)
\* thread blocks of the grid (tb.group_index().x ranges over 0..NumGroups-1)
NumGroups == 2
\* threads of a block (tb.size(); tb.thread_index().x ranges over 0..NumUnits-1)
NumUnits == 2
\* template parameter numChunks
NumChunks == 2
\* elems_per_group ranges over 1..MaxEpg
MaxEpg == 17
\* input tiles are numbered 0..MaxSeed
MaxSeed == 0
\* input values are k / Den for k in -MaxVal..MaxVal
MaxVal == 4
Den == 4
\* statistics handed to the precomputed path are k / Den for k in -MaxStat..MaxStat
MaxStat == 2

(***************************************************************************)
(* Program constants.                                                      *)
(***************************************************************************)
granularity == 16
h_per_load == granularity \div 2
h2_per_load == granularity \div 4

Groups == 0 .. NumGroups - 1
Units == 0 .. NumUnits - 1
Threads == Groups \X Units
QTypes == {"Symmetric", "IntegerSymmetric", "Asymmetric"}
BitWidths == {4, 8}

(***************************************************************************)
(* Configuration of an instantiation.                                      *)
(***************************************************************************)
VARIABLES
    qType,            \* template parameter qType
    numBits,          \* template parameter numBits
    ties_even         \* conversion::to<int32_t> rounds a half to the even neighbour

(***************************************************************************)
(* Float arithmetic over exact rationals.                                  *)
(***************************************************************************)
Abs(x) == IF x < 0 THEN -x ELSE x

Sgn(x) == IF x < 0 THEN -1 ELSE IF x > 0 THEN 1 ELSE 0

IMin(a, b) == IF a < b THEN a ELSE b

IMax(a, b) == IF a < b THEN b ELSE a

RECURSIVE GCD(_, _)
GCD(a, b) == IF b = 0 THEN a ELSE GCD(b, a % b)

Norm(n, d) ==
    IF d = 0 THEN <<Sgn(n), 0>>
    ELSE LET g == GCD(Abs(n), Abs(d))
             s == Sgn(d)
         IN  <<(s * n) \div g, (s * d) \div g>>

RInt(k) == <<k, 1>>

Zero == RInt(0)

One == RInt(1)

NegInf == <<-1, 0>>

PosInf == <<1, 0>>

Uninit == <<0, 0>>

RAdd(a, b) == Norm(a[1] * b[2] + b[1] * a[2], a[2] * b[2])

RSub(a, b) == Norm(a[1] * b[2] - b[1] * a[2], a[2] * b[2])

RMul(a, b) == Norm(a[1] * b[1], a[2] * b[2])

\* x / 0 is an infinity, or NaN when x is 0
RDiv(a, b) ==
    IF b[1] = 0 /\ b[2] # 0 THEN Norm(a[1], 0)
    ELSE Norm(a[1] * b[2] * Sgn(b[1]), a[2] * Abs(b[1]))

RAbs(a) == <<Abs(a[1]), a[2]>>

RLt(a, b) == a[1] * b[2] < b[1] * a[2]

RLe(a, b) == a[1] * b[2] <= b[1] * a[2]

\* reduce::element<rop::Max> and reduce::element<rop::Min> on scalars
ElementMax(a, b) == IF RLt(a, b) THEN b ELSE a

ElementMin(a, b) == IF RLt(b, a) THEN b ELSE a

\* the same on __half2: lane by lane
ElementMax2(a, b) == <<ElementMax(a[1], b[1]), ElementMax(a[2], b[2])>>

ElementMin2(a, b) == <<ElementMin(a[1], b[1]), ElementMin(a[2], b[2])>>

\* reduce::init<rop::Max, __half2>() and reduce::init<rop::Min, __half2>()
InitMax2 == <<NegInf, NegInf>>

InitMin2 == <<PosInf, PosInf>>

\* __habs2
habs2(v) == <<RAbs(v[1]), RAbs(v[2])>>

INT_MAX == (2 ^ 30 - 1) * 2 + 1

INT_MIN == -INT_MAX - 1

\* conversion::to<int32_t>(float): round to the nearest integer. Which way a
\* half goes is the conversion's choice, ties_even: to the even neighbour, or
\* away from zero. NaN gives 0 and an infinity saturates.
to_int32(x) ==
    IF x[2] = 0 THEN (IF x[1] > 0 THEN INT_MAX ELSE IF x[1] < 0 THEN INT_MIN ELSE 0)
    ELSE LET fl == x[1] \div x[2]
             twice == 2 * (x[1] - fl * x[2])
             r == IF twice < x[2] THEN fl
                  ELSE IF twice > x[2] THEN fl + 1
                  ELSE IF ties_even THEN (IF fl % 2 = 0 THEN fl ELSE fl + 1)
                  ELSE (IF x[1] >= 0 THEN fl + 1 ELSE fl)
         IN  IMin(IMax(r, INT_MIN), INT_MAX)

\* (int8_t) of an int32_t: the low 8 bits, two's complement
to_int8(x) == (((x % 256) + 128) % 256) - 128

\* 1 << k
Shl1(k) == 2 ^ k

(***************************************************************************)
(* GroupStats<qType>: cur_max, cur_min are __half2, max and min are float. *)
(* The Symmetric and IntegerSymmetric statistics have no cur_min and min;  *)
(* the record keeps them at their initial value.                           *)
(***************************************************************************)
NewStats(qT) ==
    [cur_max |-> InitMax2,
     cur_min |-> IF qT = "Asymmetric" THEN InitMin2 ELSE <<Uninit, Uninit>>,
     max |-> Uninit, min |-> Uninit]

update(qT, st, val) ==
    IF qT = "Asymmetric"
    THEN [st EXCEPT !.cur_max = ElementMax2(st.cur_max, val),
                    !.cur_min = ElementMin2(st.cur_min, val)]
    ELSE [st EXCEPT !.cur_max = ElementMax2(st.cur_max, habs2(val))]

\* GroupStats::reduce up to the call of reduce::block: the two lanes of the
\* accumulators become the float scalars max (and min)
reduce_lanes(qT, st) ==
    IF qT = "Asymmetric"
    THEN [st EXCEPT !.max = ElementMax(st.cur_max[1], st.cur_max[2]),
                    !.min = ElementMin(st.cur_min[1], st.cur_min[2])]
    ELSE [st EXCEPT !.max = ElementMax(st.cur_max[1], st.cur_max[2])]

\* the __half2 at index i of a buffer of __half
Half2At(buf, i) == <<buf[2 * i], buf[2 * i + 1]>>

RECURSIVE ScanFrom(_, _, _, _, _)
ScanFrom(qT, buf, i, n, st) ==
    IF i >= n THEN st ELSE ScanFrom(qT, buf, i + 1, n, update(qT, st, Half2At(buf, i)))

local_serial_reduce_short(qT, buf, nChunks) ==
    ScanFrom(qT, buf, 0, (nChunks - 1) * h2_per_load, NewStats(qT))

local_serial_reduce(qT, buf, nChunks) ==
    ScanFrom(qT, buf, 0, nChunks * h2_per_load, NewStats(qT))

(***************************************************************************)
(* Params<qType, numBits>                                                  *)
(***************************************************************************)
q_min(nB) == -Shl1(nB - 1)

q_max(nB) == Shl1(nB - 1) - 1

Params_Symmetric_fullrange(nB, st) ==
    [scale |-> IF st.max = Zero THEN One
               ELSE RDiv(RInt(Shl1(nB)), st.max),
     offset |-> Zero]

Params_Symmetric(nB, st) ==
    [scale |-> IF st.max = Zero THEN One
               ELSE RDiv(RInt(Shl1(nB)), RMul(RInt(2), st.max)),
     offset |-> Zero]

Params_IntegerSymmetric_nohalf(nB, st) ==
    [scale |-> RInt(to_int32(st.max)), offset |-> Zero]

Params_IntegerSymmetric(nB, st) ==
    [scale |-> RInt(to_int32(RAdd(st.max, <<1, 2>>))), offset |-> Zero]

Params_Asymmetric_nocheck(nB, st) ==
    LET scale == RDiv(RInt(Shl1(nB)), RSub(st.max, st.min))
    IN  [scale |-> scale,
         offset |-> RSub(RInt(-Shl1(nB - 1)), RMul(st.min, scale))]

Params_Asymmetric(nB, st) ==
    LET scale == IF st.max = st.min THEN One
                 ELSE RDiv(RInt(Shl1(nB)), RSub(st.max, st.min))
    IN  [scale |-> scale,
         offset |-> RSub(RInt(-Shl1(nB - 1)), RMul(st.min, scale))]

Params(qT, nB, st) ==
    CASE qT = "Symmetric" -> Params_Symmetric(nB, st)
      [] qT = "IntegerSymmetric" -> Params_IntegerSymmetric(nB, st)
      [] qT = "Asymmetric" -> Params_Asymmetric(nB, st)

quantize_Symmetric_wrap(nB, p, val) ==
    to_int8(to_int32(RMul(val, p.scale)))

quantize_Symmetric(nB, p, val) ==
    LET val_f == RMul(val, p.scale)
        data_i32 == to_int32(val_f)
    IN  to_int8(IMin(IMax(data_i32, q_min(nB)), q_max(nB)))

quantize_IntegerSymmetric(nB, p, val) ==
    LET val_f == RMul(val, RInt(q_max(nB)))
        scaled_val == RDiv(val_f, p.scale)
        data_i32 == to_int32(scaled_val)
    IN  to_int8(data_i32)

quantize_Asymmetric(nB, p, val) ==
    LET val_f == RAdd(RMul(val, p.scale), p.offset)
        data_i32 == to_int32(val_f)
    IN  to_int8(IMin(IMax(data_i32, q_min(nB)), q_max(nB)))

quantize(qT, nB, p, val) ==
    CASE qT = "Symmetric" -> quantize_Symmetric(nB, p, val)
      [] qT = "IntegerSymmetric" -> quantize_IntegerSymmetric(nB, p, val)
      [] qT = "Asymmetric" -> quantize_Asymmetric(nB, p, val)

\* Params::store: the (position, float) pairs written to the parameter buffer.
\* IntegerSymmetric stores the four bytes of its int32 scale as they are.
store_Symmetric(p, group_index) == {<<group_index, RDiv(One, p.scale)>>}

store_IntegerSymmetric(p, group_index) == {<<group_index, p.scale>>}

store_Asymmetric(p, group_index) ==
    {<<2 * group_index, RDiv(One, p.scale)>>, <<2 * group_index + 1, p.offset>>}

store(qT, p, group_index) ==
    CASE qT = "Symmetric" -> store_Symmetric(p, group_index)
      [] qT = "IntegerSymmetric" -> store_IntegerSymmetric(p, group_index)
      [] qT = "Asymmetric" -> store_Asymmetric(p, group_index)

(***************************************************************************)
(* _chunk: 8 __half of input to 8 / num_elems_packed bytes of output.      *)
(***************************************************************************)
\* PackedInt4{high, low} read back as one int8_t
PackedInt4(high, low) == to_int8((low % 16) + 16 * (high % 16))

num_elems_packed(nB) == 8 \div nB

chunk_swapped(nB, qT, data, p) ==
    [oi \in 0 .. (h_per_load \div num_elems_packed(nB)) - 1 |->
        IF num_elems_packed(nB) = 1
        THEN quantize(qT, nB, p, data[oi])
        ELSE PackedInt4(quantize(qT, nB, p, data[2 * oi]),
                        quantize(qT, nB, p, data[2 * oi + 1]))]

chunk(nB, qT, data, p) ==
    [oi \in 0 .. (h_per_load \div num_elems_packed(nB)) - 1 |->
        IF num_elems_packed(nB) = 1
        THEN quantize(qT, nB, p, data[oi])
        ELSE LET i == oi * num_elems_packed(nB)
                 data_i8_1 == quantize(qT, nB, p, data[i])
                 data_i8_2 == quantize(qT, nB, p, data[i + 1])
             IN  PackedInt4(data_i8_2, data_i8_1)]

(***************************************************************************)
(* local_array: index arithmetic of the packing pass.                      *)
(***************************************************************************)
num_ele_int8(nB) == 8 \div nB

num_int8_out(nB) == h_per_load \div num_ele_int8(nB)

block_offset(g, epg) == g * epg

elem_offset(t) == t * h_per_load

base_offset(nB, g, t, epg) == (block_offset(g, epg) + elem_offset(t)) \div num_ele_int8(nB)

\* tb.size() is NumUnits
stride(nB) == (NumUnits * h_per_load) \div num_ele_int8(nB)

ChunkInRange_bytes(nB, t, i, epg) == elem_offset(t) + i * stride(nB) < epg

\* the test that guards the store of chunk i
ChunkInRange(nB, t, i, epg) ==
    elem_offset(t) + i * stride(nB) * num_ele_int8(nB) < epg

\* first byte of the store of chunk i
StoreBase(nB, g, t, i, epg) == base_offset(nB, g, t, epg) + i * stride(nB)

\* local_buffer + i * h2_per_load: the 8 __half of chunk i
ChunkData(buf, i) == [k \in 0 .. h_per_load - 1 |-> buf[i * h_per_load + k]]

(***************************************************************************)
(* Inputs.                                                                 *)
(***************************************************************************)
Vals == {Norm(k, Den) : k \in -MaxVal .. MaxVal}

\* the tile staged in the local_buffer of thread t of block g: values below
\* MaxVal / Den in magnitude, and one value of that magnitude in the last
\* chunk of one thread of the block
PeakThread(sd, g) == (sd + g) % NumUnits

PeakElem(sd) == NumChunks * h_per_load - 1 - sd

\* numerator of the value, over Den
TileNum(sd, g, t, j) ==
    IF t = PeakThread(sd, g) /\ j = PeakElem(sd)
    THEN (IF sd % 2 = 0 THEN MaxVal ELSE -MaxVal)
    ELSE ((3 * j + 5 * t + 7 * g + sd) % (2 * MaxVal - 1)) - (MaxVal - 1)

TileVal(sd, g, t, j) == Norm(TileNum(sd, g, t, j), Den)

LocalBuffer(sd, g, t) == [j \in 0 .. NumChunks * h_per_load - 1 |-> TileVal(sd, g, t, j)]

\* finalized statistics over the whole value range, as a caller of the
\* precomputed path derives them
RangeStats == [cur_max |-> InitMax2, cur_min |-> InitMin2,
               max |-> Norm(MaxVal, Den), min |-> Norm(-MaxVal, Den)]

NoParams == [scale |-> Uninit, offset |-> Uninit]

\* a byte of output_data no store has reached
Untouched == 2 ^ 10

\* a store starts below the end of the last group and is at most h_per_load wide
OutSize == NumGroups * MaxEpg + h_per_load

ParamSize == 2 * NumGroups + 1

(***************************************************************************)
(* State.                                                                  *)
(***************************************************************************)
VARIABLES
    elems_per_group,  \* argument elems_per_group
    precomputed,      \* TRUE: the entry point that is handed q_params
    seed,             \* which input tile is staged
    pc,               \* position of each thread
    stats,            \* GroupStats of each thread
    q_params,         \* Params of each thread
    chunk_i,          \* loop variable i of the packing loop of each thread
    block_max,        \* reduce::block: the running maximum of each block
    block_min,        \* reduce::block: the running minimum of each block
    arrived,          \* reduce::block: threads of the block that joined
    output_data,      \* the packed output buffer
    global_params,    \* the parameter buffer
    store_log,        \* history: the stores to output_data
    param_log,        \* history: the stores to global_params
    param_writes,     \* history: how often each float of global_params was stored
    u_pc,             \* single-thread run: position
    u_data,           \* single-thread run: local_buffer, one chunk
    u_given,          \* single-thread run: parameters handed in
    u_stats,          \* single-thread run: GroupStats
    u_params,         \* single-thread run: Params
    u_out             \* single-thread run: local_output of _chunk

kvars == <<qType, numBits, ties_even, elems_per_group, precomputed, seed, pc, stats, q_params,
           chunk_i, block_max, block_min, arrived, output_data, global_params,
           store_log, param_log, param_writes>>

uvars == <<u_pc, u_data, u_given, u_stats, u_params, u_out>>

vars == <<kvars, uvars>>

(***************************************************************************)
(* The kernel: every thread of every resident block runs local_array.      *)
(***************************************************************************)
UnitIdle ==
    /\ u_pc = "idle"
    /\ u_data = <<>>
    /\ u_given = FALSE
    /\ u_stats = NewStats("Symmetric")
    /\ u_params = NoParams
    /\ u_out = <<>>

\* the launch with the blocks of R resident. The build of the grid rounds
\* halves away from zero; both tie rules are explored on the single thread.
InitLaunch(R) ==
    /\ qType \in QTypes
    /\ numBits \in BitWidths
    /\ ties_even = FALSE
    /\ elems_per_group \in 1 .. MaxEpg
    /\ precomputed \in BOOLEAN
    /\ seed \in 0 .. MaxSeed
    /\ pc = [u \in Threads |-> IF u[1] \notin R THEN "idle"
                               ELSE IF precomputed THEN "store" ELSE "scan"]
    /\ stats = [u \in Threads |-> NewStats(qType)]
    /\ q_params = [u \in Threads |->
                      IF precomputed /\ u[1] \in R
                      THEN Params(qType, numBits, RangeStats) ELSE NoParams]
    /\ chunk_i = [u \in Threads |-> 0]
    /\ block_max = [g \in Groups |-> NegInf]
    /\ block_min = [g \in Groups |-> PosInf]
    /\ arrived = [g \in Groups |-> 0]
    /\ output_data = [k \in 0 .. OutSize - 1 |-> Untouched]
    /\ global_params = [k \in 0 .. ParamSize - 1 |-> Uninit]
    /\ store_log = {}
    /\ param_log = {}
    /\ param_writes = [k \in 0 .. ParamSize - 1 |-> 0]
    /\ UnitIdle

Init == InitLaunch(Groups)

InitBlock == \E g \in Groups : InitLaunch({g})

\* auto group_stats = _local_serial_reduce<qType, numChunks>(local_buffer)
LocalScan(g, t) ==
    /\ pc[<<g, t>>] = "scan"
    /\ stats' = [stats EXCEPT ![<<g, t>>] =
                    local_serial_reduce(qType, LocalBuffer(seed, g, t), NumChunks)]
    /\ pc' = [pc EXCEPT ![<<g, t>>] = "reduce"]
    /\ UNCHANGED <<qType, numBits, ties_even, elems_per_group, precomputed, seed, q_params, chunk_i,
                   block_max, block_min, arrived, output_data, global_params,
                   store_log, param_log, param_writes, uvars>>

\* stats.reduce(tb, warp) up to the barrier of reduce::block: the lanes are
\* merged and the thread's scalars join the block's reduction
Reduce(g, t) ==
    /\ pc[<<g, t>>] = "reduce"
    /\ LET st == reduce_lanes(qType, stats[<<g, t>>])
       IN  /\ stats' = [stats EXCEPT ![<<g, t>>] = st]
           /\ block_max' = [block_max EXCEPT ![g] = ElementMax(@, st.max)]
           /\ block_min' = IF qType = "Asymmetric"
                           THEN [block_min EXCEPT ![g] = ElementMin(@, st.min)]
                           ELSE block_min
    /\ arrived' = [arrived EXCEPT ![g] = @ + 1]
    /\ pc' = [pc EXCEPT ![<<g, t>>] = "barrier"]
    /\ UNCHANGED <<qType, numBits, ties_even, elems_per_group, precomputed, seed, q_params, chunk_i,
                   output_data, global_params, store_log, param_log, param_writes, uvars>>

\* reduce::block returns once every thread of the block has joined; then
\* Params<qType, numBits> params(stats)
GetParams(g, t) ==
    /\ pc[<<g, t>>] = "barrier"
    /\ arrived[g] = NumUnits
    /\ LET st == IF qType = "Asymmetric"
                 THEN [stats[<<g, t>>] EXCEPT !.max = block_max[g], !.min = block_min[g]]
                 ELSE [stats[<<g, t>>] EXCEPT !.max = block_max[g]]
       IN  /\ stats' = [stats EXCEPT ![<<g, t>>] = st]
           /\ q_params' = [q_params EXCEPT ![<<g, t>>] = Params(qType, numBits, st)]
    /\ pc' = [pc EXCEPT ![<<g, t>>] = "store"]
    /\ UNCHANGED <<qType, numBits, ties_even, elems_per_group, precomputed, seed, chunk_i,
                   block_max, block_min, arrived, output_data, global_params,
                   store_log, param_log, param_writes, uvars>>

\* the threads that store the parameter record
StoresParams_all(t) == TRUE

StoresParams(t) == t = 0

\* if (tb.thread_index().x == 0) { q_params.store(global_params, tb.group_index().x); }
StoreParams(g, t) ==
    /\ pc[<<g, t>>] = "store"
    /\ LET w == IF StoresParams(t) THEN store(qType, q_params[<<g, t>>], g) ELSE {}
       IN  /\ global_params' = [k \in DOMAIN global_params |->
                                   IF \E e \in w : e[1] = k
                                   THEN (CHOOSE e \in w : e[1] = k)[2]
                                   ELSE global_params[k]]
           /\ param_log' = param_log \cup
                               {[g |-> g, t |-> t, pos |-> e[1], val |-> e[2]] : e \in w}
           /\ param_writes' = [k \in DOMAIN param_writes |->
                                  param_writes[k] + Cardinality({e \in w : e[1] = k})]
    /\ pc' = [pc EXCEPT ![<<g, t>>] = "chunk"]
    /\ UNCHANGED <<qType, numBits, ties_even, elems_per_group, precomputed, seed, stats, q_params,
                   chunk_i, block_max, block_min, arrived, output_data, store_log, uvars>>

\* one iteration of the packing loop: for (int i = 0; i < numChunks; i++)
Chunk(g, t) ==
    /\ pc[<<g, t>>] = "chunk"
    /\ LET i == chunk_i[<<g, t>>]
           base == StoreBase(numBits, g, t, i, elems_per_group)
           len == num_int8_out(numBits)
           local_output == chunk(numBits, qType, ChunkData(LocalBuffer(seed, g, t), i),
                                 q_params[<<g, t>>])
       IN  /\ IF ChunkInRange(numBits, t, i, elems_per_group)
              THEN /\ output_data' = [k \in DOMAIN output_data |->
                                         IF k \in base .. base + len - 1
                                         THEN local_output[k - base]
                                         ELSE output_data[k]]
                   /\ store_log' = store_log \cup
                                      {[g |-> g, t |-> t, i |-> i, base |-> base, len |-> len]}
              ELSE UNCHANGED <<output_data, store_log>>
           /\ chunk_i' = [chunk_i EXCEPT ![<<g, t>>] = i + 1]
           /\ pc' = [pc EXCEPT ![<<g, t>>] = IF i + 1 < NumChunks THEN "chunk" ELSE "done"]
    /\ UNCHANGED <<qType, numBits, ties_even, elems_per_group, precomputed, seed, stats, q_params,
                   block_max, block_min, arrived, global_params, param_log, param_writes, uvars>>

Next ==
    \E g \in Groups, t \in Units :
        \/ LocalScan(g, t)
        \/ Reduce(g, t)
        \/ GetParams(g, t)
        \/ StoreParams(g, t)
        \/ Chunk(g, t)

\* the whole grid
Spec == Init /\ [][Next]_vars

\* one resident block
SpecBlock == InitBlock /\ [][Next]_vars

(***************************************************************************)
(* One thread alone (a block of one thread, one chunk): statistics,        *)
(* parameters and _chunk on inputs drawn from Vals.                        *)
(***************************************************************************)
KernelIdle ==
    /\ elems_per_group = h_per_load
    /\ precomputed = FALSE
    /\ seed = 0
    /\ pc = [u \in Threads |-> "idle"]
    /\ stats = [u \in Threads |-> NewStats(qType)]
    /\ q_params = [u \in Threads |-> NoParams]
    /\ chunk_i = [u \in Threads |-> 0]
    /\ block_max = [g \in Groups |-> NegInf]
    /\ block_min = [g \in Groups |-> PosInf]
    /\ arrived = [g \in Groups |-> 0]
    /\ output_data = [k \in 0 .. OutSize - 1 |-> Untouched]
    /\ global_params = [k \in 0 .. ParamSize - 1 |-> Uninit]
    /\ store_log = {}
    /\ param_log = {}
    /\ param_writes = [k \in 0 .. ParamSize - 1 |-> 0]

StatVals == {Norm(k, Den) : k \in -MaxStat .. MaxStat}

\* finalized statistics a caller may hand to the precomputed path
GivenStats(qT) ==
    IF qT = "Asymmetric"
    THEN {[cur_max |-> InitMax2, cur_min |-> InitMin2, max |-> mx, min |-> mn] :
             <<mx, mn>> \in {w \in StatVals \X StatVals : RLe(w[2], w[1])}}
    ELSE {[cur_max |-> InitMax2, cur_min |-> <<Uninit, Uninit>>, max |-> mx, min |-> Uninit] :
             mx \in {w \in StatVals : RLe(Zero, w)}}

InitUnit ==
    /\ qType \in QTypes
    /\ numBits \in BitWidths
    /\ ties_even \in BOOLEAN
    /\ KernelIdle
    /\ \E a \in Vals, b \in Vals, c \in Vals :
           u_data = [j \in 0 .. h_per_load - 1 |->
                        IF j % 3 = 0 THEN a ELSE IF j % 3 = 1 THEN b ELSE c]
    /\ u_given \in BOOLEAN
    /\ u_out = <<>>
    /\ IF u_given
       THEN /\ u_stats \in GivenStats(qType)
            /\ u_params = Params(qType, numBits, u_stats)
            /\ u_pc = "chunk"
       ELSE /\ u_stats = NewStats(qType)
            /\ u_params = NoParams
            /\ u_pc = "scan"

UnitScan ==
    /\ u_pc = "scan"
    /\ u_stats' = local_serial_reduce(qType, u_data, 1)
    /\ u_pc' = "reduce"
    /\ UNCHANGED <<kvars, u_data, u_given, u_params, u_out>>

\* _get_params in a block of one thread: reduce::block leaves max and min as
\* the thread's own
UnitGetParams ==
    /\ u_pc = "reduce"
    /\ LET st == reduce_lanes(qType, u_stats)
       IN  /\ u_stats' = st
           /\ u_params' = Params(qType, numBits, st)
    /\ u_pc' = "chunk"
    /\ UNCHANGED <<kvars, u_data, u_given, u_out>>

UnitChunk ==
    /\ u_pc = "chunk"
    /\ u_out' = chunk(numBits, qType, u_data, u_params)
    /\ u_pc' = "done"
    /\ UNCHANGED <<kvars, u_data, u_given, u_stats, u_params>>

NextUnit == UnitScan \/ UnitGetParams \/ UnitChunk

SpecUnit == InitUnit /\ [][NextUnit]_vars

(***************************************************************************)
(* Properties of one thread's statistics, parameters and packed chunk.     *)
(***************************************************************************)
Symmetric == qType = "Symmetric"

IntegerSymmetric == qType = "IntegerSymmetric"

Asymmetric == qType = "Asymmetric"

UnitComputed == u_pc = "done" /\ ~u_given

Elems == 0 .. h_per_load - 1

\* the code of element j as the packed output holds it
Code(j) ==
    IF numBits = 8 THEN u_out[j]
    ELSE LET byte == u_out[j \div 2] % 256
             nibble == IF j % 2 = 0 THEN byte % 16 ELSE byte \div 16
         IN  IF nibble >= 8 THEN nibble - 16 ELSE nibble

\* round(v * scale + offset), before any clamp (offset is 0 for Symmetric)
Rounded(j) == to_int32(RAdd(RMul(u_data[j], u_params.scale), u_params.offset))

\* the quantization step, 1 / scale, as store() writes it
Step == RDiv(One, u_params.scale)

\* dequantization with the stored record
Dequantized(j) ==
    IF Asymmetric THEN RMul(RSub(RInt(Code(j)), u_params.offset), Step)
    ELSE RMul(RInt(Code(j)), Step)

Err(j) == RAbs(RSub(Dequantized(j), u_data[j]))

HalfStep == RMul(<<1, 2>>, Step)

AllZero == \A j \in Elems : u_data[j] = Zero

AllEqual == \A j \in Elems : u_data[j] = u_data[0]

\* C4 as stated: round trip. Every value of a group, the endpoints of its
\* observed range included, is recovered within half a quantization step.
C4_RoundTripHalfStep ==
    (UnitComputed /\ (Symmetric \/ Asymmetric)) =>
        \A j \in Elems : RLe(Err(j), HalfStep)

\* C4 amended: round trip. A value whose rounded transform is at most q_max is
\* recovered within half a step; a value whose rounded transform is
\* q_max + 1 (the upper endpoint of the range and the values within half a
\* step of it) is clamped to q_max and recovered within one step.
C4_RoundTripClamped ==
    (UnitComputed /\ (Symmetric \/ Asymmetric)) =>
        \A j \in Elems :
            /\ Rounded(j) >= q_min(numBits)
            /\ Rounded(j) <= q_max(numBits) + 1
            /\ Rounded(j) <= q_max(numBits) => RLe(Err(j), HalfStep)
            /\ RLe(Err(j), Step)

C4_Witness ==
    /\ UnitComputed
    /\ Symmetric \/ Asymmetric
    /\ \E j \in Elems : Rounded(j) = q_max(numBits) + 1 /\ RLt(HalfStep, Err(j))
    /\ \E j \in Elems : Rounded(j) <= q_max(numBits) /\ RLt(Zero, Err(j))

\* the codes in the middle of [q_min, q_max]
MidCodes == {(q_min(numBits) + q_max(numBits)) \div 2,
             (q_min(numBits) + q_max(numBits)) \div 2 + 1}

C6_Clamp ==
    (u_pc = "done" /\ (Symmetric \/ Asymmetric)) =>
        \A j \in Elems :
            /\ Code(j) \in q_min(numBits) .. q_max(numBits)
            /\ Rounded(j) < q_min(numBits) => Code(j) = q_min(numBits)
            /\ Rounded(j) > q_max(numBits) => Code(j) = q_max(numBits)
            /\ Rounded(j) \in q_min(numBits) .. q_max(numBits) => Code(j) = Rounded(j)

C6_Witness ==
    /\ u_pc = "done"
    /\ Symmetric \/ Asymmetric
    /\ \E j \in Elems : Rounded(j) < q_min(numBits) - 1 /\ Code(j) = q_min(numBits)
    /\ \E j \in Elems : Rounded(j) > q_max(numBits) + 1 /\ Code(j) = q_max(numBits)

\* the four bits of a code, two's complement
Nibble(code) == code % 16

\* C9: 4-bit packing. _chunk writes exactly 4 bytes; byte k holds the code of
\* element 2k in its low nibble and the code of element 2k + 1 in its high
\* nibble.
C9_NibbleLayout ==
    (u_pc = "done" /\ numBits = 4) =>
        /\ DOMAIN u_out = 0 .. 3
        /\ \A k \in 0 .. 3 :
               /\ (u_out[k] % 256) % 16 =
                      Nibble(quantize(qType, numBits, u_params, u_data[2 * k]))
               /\ (u_out[k] % 256) \div 16 =
                      Nibble(quantize(qType, numBits, u_params, u_data[2 * k + 1]))

C9_Witness ==
    /\ u_pc = "done"
    /\ numBits = 4
    /\ \E k \in 0 .. 3 :
           /\ quantize(qType, numBits, u_params, u_data[2 * k]) < 0
           /\ quantize(qType, numBits, u_params, u_data[2 * k + 1]) > 0
           /\ (u_out[k] % 256) % 16 >= 8
           /\ (u_out[k] % 256) \div 16 < 8

\* round(v * q_max / scale) of IntegerSymmetric, before the cast to int8
RoundedInt(j) == to_int32(RDiv(RMul(u_data[j], RInt(q_max(numBits))), u_params.scale))

\* C10: IntegerSymmetric without a clamp. For a group with max_abs > 0 the
\* integer scale round(max_abs + 0.5) is at least max_abs, every rounded
\* value lies in [-q_max, q_max], and the int8 code is that value unwrapped.
C10_IntegerRange ==
    (UnitComputed /\ IntegerSymmetric /\ RLt(Zero, u_stats.max)) =>
        /\ RLe(u_stats.max, u_params.scale)
        /\ \A j \in Elems :
               /\ RoundedInt(j) \in -q_max(numBits) .. q_max(numBits)
               /\ Code(j) = RoundedInt(j)

C10_Witness ==
    /\ UnitComputed
    /\ IntegerSymmetric
    /\ RLt(Zero, u_stats.max)
    /\ u_stats.max[2] # 1
    /\ \E j \in Elems : Code(j) < 0
    /\ \E j \in Elems : Code(j) > 0

(***************************************************************************)
(* Properties of the kernel.                                               *)
(***************************************************************************)
\* index, within its group, of the first element of chunk i of thread t
ElemStart(t, i) == t * h_per_load + i * NumUnits * h_per_load

\* elems_per_group rounded up to the chunk width
PaddedEpg == ((elems_per_group + h_per_load - 1) \div h_per_load) * h_per_load

\* bytes of output_data a logged store covers
Range(r) == r.base .. r.base + r.len - 1

\* index, within the group, of the last element held by byte o of a store
LastElemOfByte(r, o) == ElemStart(r.t, r.i) + o * num_ele_int8(numBits) + num_ele_int8(numBits) - 1

HasParams(u) == pc[u] \in {"store", "chunk", "done"}

Merged(u) == pc[u] \in {"barrier", "store", "chunk", "done"}

BlockDone(g) == \A t \in Units : pc[<<g, t>>] = "done"

\* C1 as stated: partial groups. No byte that holds an element of index
\* >= elems_per_group of its group is ever stored: a trailing partial chunk is
\* skipped.
C1_NothingPastEpg ==
    \A r \in store_log : \A o \in 0 .. r.len - 1 : LastElemOfByte(r, o) < elems_per_group

\* C1 amended: partial groups. A chunk is stored exactly when its first
\* element lies below elems_per_group, and then at full width: a trailing
\* partial chunk is stored whole, so the bytes stored for a group hold
\* elements of index below elems_per_group rounded up to the chunk width, and
\* every other byte of the output stays untouched.
C1_ChunkGranular ==
    /\ \A r \in store_log :
           /\ ElemStart(r.t, r.i) < elems_per_group
           /\ r.len = h_per_load \div num_ele_int8(numBits)
           /\ r.base = (r.g * elems_per_group + ElemStart(r.t, r.i)) \div num_ele_int8(numBits)
           /\ \A o \in 0 .. r.len - 1 : LastElemOfByte(r, o) < PaddedEpg
    /\ \A u \in Threads : \A i \in 0 .. NumChunks - 1 :
           (pc[u] = "done" \/ (pc[u] = "chunk" /\ i < chunk_i[u])) =>
               ((\E r \in store_log : r.g = u[1] /\ r.t = u[2] /\ r.i = i)
                   <=> ElemStart(u[2], i) < elems_per_group)
    /\ \A k \in DOMAIN output_data :
           output_data[k] # Untouched => \E r \in store_log : k \in Range(r)

C1_Witness ==
    /\ elems_per_group % h_per_load # 0
    /\ \E u \in Threads :
           /\ pc[u] = "done"
           /\ \E r \in store_log :
                  /\ r.g = u[1] /\ r.t = u[2]
                  /\ ElemStart(r.t, r.i) < elems_per_group
                  /\ elems_per_group < ElemStart(r.t, r.i) + h_per_load
                  /\ output_data[r.base + r.len - 1] # Untouched
           /\ \E i \in 0 .. NumChunks - 1 :
                  /\ ElemStart(u[2], i) >= elems_per_group
                  /\ ~ \E r \in store_log : r.g = u[1] /\ r.t = u[2] /\ r.i = i

\* C2: the byte ranges of any two distinct (group, unit, chunk) stores are
\* disjoint.
C2_StoresDisjoint ==
    \A r1 \in store_log, r2 \in store_log :
        r1 # r2 => Range(r1) \cap Range(r2) = {}

\* numerators, over Den, of the values a block scans, over all of its threads
GroupNums(g) ==
    {TileNum(seed, g, t, j) : t \in Units, j \in 0 .. NumChunks * h_per_load - 1}

GreatestOf(S) == CHOOSE m \in S : \A x \in S : x <= m

LeastOf(S) == CHOOSE m \in S : \A x \in S : m <= x

\* C3: compute-parameters path. A thread has Params, and a store to either
\* buffer exists, only once every thread of its block has scanned and joined
\* the reduction; the finalized max (and min) is that of all
\* numChunks * 8 elements of all threads of the block and the same for all.
C3_BarrierThenParams ==
    ~precomputed =>
        /\ \A g \in Groups :
               (\E t \in Units : HasParams(<<g, t>>)) =>
                   LET nums == GroupNums(g)
                       gmax == IF Asymmetric THEN Norm(GreatestOf(nums), Den)
                               ELSE Norm(GreatestOf({Abs(k) : k \in nums}), Den)
                       gmin == Norm(LeastOf(nums), Den)
                   IN  /\ \A t \in Units : Merged(<<g, t>>)
                       /\ \A t \in Units :
                              HasParams(<<g, t>>) =>
                                  /\ stats[<<g, t>>].max = gmax
                                  /\ Asymmetric => stats[<<g, t>>].min = gmin
                       /\ \A t1 \in Units, t2 \in Units :
                              (HasParams(<<g, t1>>) /\ HasParams(<<g, t2>>)) =>
                                  q_params[<<g, t1>>] = q_params[<<g, t2>>]
        /\ \A r \in store_log : \A t \in Units : Merged(<<r.g, t>>)
        /\ \A r \in param_log : \A t \in Units : Merged(<<r.g, t>>)

C3_Witness ==
    /\ ~precomputed
    /\ elems_per_group <= h_per_load
    /\ \E g \in Groups : \E t1 \in Units, t2 \in Units :
           /\ pc[<<g, t1>>] = "done"
           /\ pc[<<g, t2>>] = "barrier"
           /\ \A i \in 0 .. NumChunks - 1 : ElemStart(t2, i) >= elems_per_group
           /\ \E r \in store_log : r.g = g /\ r.t = t1
           /\ stats[<<g, t1>>].max # reduce_lanes(qType, stats[<<g, t2>>]).max

\* the threads of the grid in index order, and the run that takes them one
\* after the other
NumStores == NumGroups * NumUnits * NumChunks

SeqG(n) == n \div (NumUnits * NumChunks)

SeqT(n) == (n \div NumChunks) % NumUnits

SeqI(n) == n % NumChunks

RECURSIVE GroupStatsFrom(_, _, _)
GroupStatsFrom(g, t, st) ==
    IF t >= NumUnits THEN st
    ELSE LET own == reduce_lanes(qType, local_serial_reduce(qType, LocalBuffer(seed, g, t), NumChunks))
         IN  GroupStatsFrom(g, t + 1,
                 [st EXCEPT !.max = ElementMax(@, own.max),
                            !.min = IF Asymmetric THEN ElementMin(@, own.min) ELSE @])

SeqParams(g) ==
    IF precomputed THEN Params(qType, numBits, RangeStats)
    ELSE Params(qType, numBits,
             GroupStatsFrom(g, 0, [NewStats(qType) EXCEPT
                 !.max = NegInf, !.min = IF Asymmetric THEN PosInf ELSE @]))

RECURSIVE SeqOutput(_, _)
SeqOutput(n, out) ==
    IF n >= NumStores THEN out
    ELSE LET g == SeqG(n)
             t == SeqT(n)
             i == SeqI(n)
             base == StoreBase(numBits, g, t, i, elems_per_group)
             len == num_int8_out(numBits)
             lo == chunk(numBits, qType, ChunkData(LocalBuffer(seed, g, t), i), SeqParams(g))
         IN  SeqOutput(n + 1,
                 IF ChunkInRange(numBits, t, i, elems_per_group)
                 THEN [k \in DOMAIN out |-> IF k \in base .. base + len - 1 THEN lo[k - base] ELSE out[k]]
                 ELSE out)

SeqGlobalParams ==
    [k \in 0 .. ParamSize - 1 |->
        IF \E g \in Groups : \E e \in store(qType, SeqParams(g), g) : e[1] = k
        THEN LET g == CHOOSE h \in Groups : \E e \in store(qType, SeqParams(h), h) : e[1] = k
             IN  (CHOOSE e \in store(qType, SeqParams(g), g) : e[1] = k)[2]
        ELSE Uninit]

AllDone == \A u \in Threads : pc[u] = "done"

\* C7: determinism. Every interleaving ends with the same packed output and
\* the same parameter buffer: those of the run that takes the threads one
\* after the other.
C7_SameFinalBuffers ==
    AllDone =>
        /\ output_data = SeqOutput(0, [k \in 0 .. OutSize - 1 |-> Untouched])
        /\ global_params = SeqGlobalParams

\* floats per parameter record
ParamStride == IF Asymmetric THEN 2 ELSE 1

\* positions a block's record is stored at
StorePositions(g) == {e[1] : e \in store(qType, NoParams, g)}

\* C8: the parameter record of a block is stored exactly once, by thread 0
\* alone, at floats [g*s, g*s + s): 1/scale (the integer scale for
\* IntegerSymmetric), then the offset for Asymmetric; no two blocks share a
\* position.
C8_RecordOnceByUnit0 ==
    /\ \A r \in param_log :
           /\ r.t = 0
           /\ r.pos \in r.g * ParamStride .. r.g * ParamStride + ParamStride - 1
           /\ r.val = IF r.pos = r.g * ParamStride
                      THEN (IF IntegerSymmetric THEN q_params[<<r.g, 0>>].scale
                            ELSE RDiv(One, q_params[<<r.g, 0>>].scale))
                      ELSE q_params[<<r.g, 0>>].offset
           /\ global_params[r.pos] = r.val
    /\ \A k \in DOMAIN param_writes :
           /\ param_writes[k] <= 1
           /\ param_writes[k] = Cardinality({r \in param_log : r.pos = k})
    /\ \A g \in Groups :
           \A k \in g * ParamStride .. g * ParamStride + ParamStride - 1 :
               param_writes[k] = IF HasParams(<<g, 0>>) /\ pc[<<g, 0>>] # "store" THEN 1 ELSE 0
    /\ \A g1 \in Groups, g2 \in Groups :
           g1 # g2 => StorePositions(g1) \cap StorePositions(g2) = {}

C8_Witness ==
    /\ Asymmetric
    /\ \E g \in Groups :
           /\ g > 0
           /\ BlockDone(g)
           /\ param_writes[2 * g] = 1
           /\ param_writes[2 * g + 1] = 1
           /\ global_params[2 * g + 1] = q_params[<<g, 0>>].offset

====
